---- MODULE Spec2Model ----
(***************************************************************************)
(* Black-Scholes pricing notebook (BlackScholes_Full_Notebook.ipynb):      *)
(* black_scholes, black_scholes_greeks, black_scholes_with_dividends,      *)
(* monte_carlo_option_price and implied_volatility.                        *)
(*                                                                         *)
(* Numbers.  The notebook computes in IEEE double precision (Python floats *)
(* and numpy float64 scalars).  Here a finite double is a fixed-point      *)
(* integer counting millionths (ONE units make 1.0); products and          *)
(* quotients are truncated toward zero to that precision.  The special     *)
(* values a numpy operation can produce (nan, +inf, -inf, signed zero)     *)
(* are kept, because numpy scalar arithmetic returns them (with a          *)
(* RuntimeWarning) instead of raising.                                     *)
(***************************************************************************)
EXTENDS Integers, Sequences, FiniteSets, TLC

-----------------------------------------------------------------------------
(* Fixed-point arithmetic on finite values.                                *)

ONE == 10^6
K3 == 10^3

Abs(x) == IF x < 0 THEN -x ELSE x
Sgn(x) == IF x < 0 THEN -1 ELSE 1
Min(a, b) == IF a < b THEN a ELSE b
Max(a, b) == IF a > b THEN a ELSE b

\* floor(a * b / ONE) for a, b >= 0, without forming a * b.
MulAbs(a, b) ==
    LET ah == a \div K3
        al == a % K3
        bh == b \div K3
        bl == b % K3
    IN ah * bh + (ah * bl + al * bh + (al * bl) \div K3) \div K3

Mul(a, b) == Sgn(a) * Sgn(b) * MulAbs(Abs(a), Abs(b))

\* <<floor(r * m / b), (r * m) % b>> for 0 <= r < b, one decimal digit of m
\* at a time (long multiplication; needs 19 * b < 2^31).
RECURSIVE MulDivRem(_, _, _)
MulDivRem(r, m, b) ==
    IF m = 0 THEN <<0, 0>>
    ELSE LET h == MulDivRem(r, m \div 10, b)
             t == 10 * h[2] + (m % 10) * r
         IN <<10 * h[1] + t \div b, t % b>>

\* floor(a * m / b) for a, m >= 0 and b > 0.
MulDivAbs(a, m, b) == (a \div b) * m + MulDivRem(a % b, m, b)[1]

\* floor(a * ONE / b); exact integer division when b is a whole number.
DivAbs(a, b) ==
    IF b % ONE = 0 THEN a \div (b \div ONE) ELSE MulDivAbs(a, ONE, b)

\* a / b.  A quotient beyond +-Saturation (doubles reach 1e308, this
\* representation 2147) is kept at that magnitude: the only quotient that
\* large is d1 at a tiny sigma * sqrt(T), whose one use is as the argument of
\* norm.cdf and norm.pdf, constant beyond +-6.
Saturation == 2000
Div(a, b) ==
    IF Abs(a) \div Abs(b) >= Saturation
    THEN Sgn(a) * Sgn(b) * Saturation * ONE
    ELSE Sgn(a) * Sgn(b) * DivAbs(Abs(a), Abs(b))

\* x \div n truncated toward zero.
Quot(x, n) == Sgn(x) * (Abs(x) \div n)

\* Newton's iteration for floor(sqrt(a * ONE)), from s above the root.
RECURSIVE SqrtIter(_, _)
SqrtIter(a, s) ==
    LET t == (s + DivAbs(a, s)) \div 2
    IN IF t >= s THEN s ELSE SqrtIter(a, t)

\* np.sqrt on a finite value a >= 0.
Sqrt(a) == IF a = 0 THEN 0 ELSE SqrtIter(a, IF a > ONE THEN a ELSE ONE)

LN2 == 693147

\* The series below carry their partial sum acc and stop when a term no
\* longer changes it.

\* sum_n x^n / n!
RECURSIVE ExpSeries(_, _, _, _)
ExpSeries(x, term, n, acc) ==
    IF acc + term = acc \/ n > 20 THEN acc
    ELSE ExpSeries(x, Quot(Mul(term, x), n), n + 1, acc + term)

RECURSIVE Pow2(_)
Pow2(k) == IF k = 0 THEN 1 ELSE 2 * Pow2(k - 1)

\* np.exp on a finite value: e^x = 2^k * e^(x - k ln 2).
Exp(x) ==
    LET k == Quot(x, LN2)
        e == ExpSeries(x - k * LN2, ONE, 1, 0)
    IN IF k < -30 THEN 0
       ELSE IF k < 0 THEN e \div Pow2(-k)
       ELSE e * Pow2(k)

\* sum_j y^(2j+1) / (2j+1) = atanh(y)
RECURSIVE AtanhSeries(_, _, _, _)
AtanhSeries(y2, term, n, acc) ==
    IF acc + term = acc \/ n > 41 THEN acc
    ELSE AtanhSeries(y2, Mul(term, y2), n + 2, acc + Quot(term, n))

\* ln of the mantissa m in [0.75, 1.5]: 2 atanh((m - 1) / (m + 1)).
LnMantissa(m) ==
    LET y == Div(m - ONE, m + ONE)
    IN 2 * AtanhSeries(Mul(y, y), y, 1, 0)

\* np.log on a finite value x > 0: ln x = k ln 2 + ln m.
RECURSIVE LnReduce(_, _)
LnReduce(x, acc) ==
    IF 2 * x > 3 * ONE THEN LnReduce(x \div 2, acc + LN2)
    ELSE IF 4 * x < 3 * ONE THEN LnReduce(2 * x, acc - LN2)
    ELSE acc + LnMantissa(x)

Ln(x) == LnReduce(x, 0)

INV_SQRT_2PI == 398942

\* norm.pdf on a finite value.
Pdf(x) ==
    IF Abs(x) >= 8 * ONE THEN 0
    ELSE Mul(INV_SQRT_2PI, Exp(-(Mul(x, x) \div 2)))

\* sum_k (-1)^k x^(2k+1) / (2^k k! (2k+1)) = sqrt(2 pi) (Phi(x) - 1/2).
RECURSIVE PhiSeries(_, _, _, _)
PhiSeries(x2, term, k, acc) ==
    IF acc + term = acc \/ k > 60 THEN acc
    ELSE PhiSeries(x2, -Quot(Mul(term, x2), 2 * (k + 1)), k + 1,
                   acc + Quot(term, 2 * k + 1))

\* x + 1/(x + 2/(x + 3/(x + ...))) = pdf(x) / (1 - Phi(x)), from the
\* innermost level k outward, acc being the levels below.
RECURSIVE TailFrac(_, _, _)
TailFrac(x, k, acc) ==
    IF acc = 0 \/ k = 0 THEN acc
    ELSE TailFrac(x, k - 1, x + DivAbs(k * ONE, acc))

CdfPos(x) ==
    IF x >= 6 * ONE THEN ONE
    ELSE IF x <= 3 * ONE
         THEN ONE \div 2 + Mul(INV_SQRT_2PI, PhiSeries(Mul(x, x), x, 0, 0))
         ELSE ONE - DivAbs(Pdf(x), TailFrac(x, 24, x))

\* norm.cdf on a finite value.
Cdf(x) == IF x < 0 THEN ONE - CdfPos(-x) ELSE CdfPos(x)

-----------------------------------------------------------------------------
(* IEEE values: finite, nan, +inf, -inf; a zero keeps its sign.            *)

F(n) == [k |-> "fin", v |-> n, s |-> Sgn(n)]
NegZero == [k |-> "fin", v |-> 0, s |-> -1]
NaN == [k |-> "nan", v |-> 0, s |-> 1]
Inf(sg) == [k |-> "inf", v |-> 0, s |-> sg]

IsNaN(a) == a.k = "nan"
IsInf(a) == a.k = "inf"
IsFin(a) == a.k = "fin"
IsZero(a) == a.k = "fin" /\ a.v = 0

\* A finite value with the sign bit sg kept when it is zero.
Signed(n, sg) == [k |-> "fin", v |-> n, s |-> IF n = 0 THEN sg ELSE Sgn(n)]

FNeg(a) == IF IsNaN(a) THEN NaN ELSE [a EXCEPT !.v = -a.v, !.s = -a.s]

FAdd(a, b) ==
    IF IsNaN(a) \/ IsNaN(b) THEN NaN
    ELSE IF IsInf(a) /\ IsInf(b) THEN (IF a.s = b.s THEN a ELSE NaN)
    ELSE IF IsInf(a) THEN a
    ELSE IF IsInf(b) THEN b
    ELSE Signed(a.v + b.v, IF a.s = -1 /\ b.s = -1 THEN -1 ELSE 1)

FSub(a, b) == FAdd(a, FNeg(b))

FMul(a, b) ==
    IF IsNaN(a) \/ IsNaN(b) THEN NaN
    ELSE IF IsInf(a) \/ IsInf(b)
         THEN (IF IsZero(a) \/ IsZero(b) THEN NaN ELSE Inf(a.s * b.s))
    ELSE Signed(Mul(a.v, b.v), a.s * b.s)

\* numpy float64 division: a zero divisor gives nan or an infinity, no exception.
FDiv(a, b) ==
    IF IsNaN(a) \/ IsNaN(b) THEN NaN
    ELSE IF IsInf(a) THEN (IF IsInf(b) THEN NaN ELSE Inf(a.s * b.s))
    ELSE IF IsInf(b) THEN Signed(0, a.s * b.s)
    ELSE IF b.v = 0 THEN (IF a.v = 0 THEN NaN ELSE Inf(a.s * b.s))
    ELSE Signed(Div(a.v, b.v), a.s * b.s)

FSqrt(a) ==
    IF IsNaN(a) THEN NaN
    ELSE IF IsInf(a) THEN (IF a.s = 1 THEN a ELSE NaN)
    ELSE IF a.v < 0 THEN NaN
    ELSE Signed(Sqrt(a.v), a.s)

FLog(a) ==
    IF IsNaN(a) THEN NaN
    ELSE IF IsInf(a) THEN (IF a.s = 1 THEN a ELSE NaN)
    ELSE IF a.v < 0 THEN NaN
    ELSE IF a.v = 0 THEN Inf(-1)
    ELSE F(Ln(a.v))

FExp(a) ==
    IF IsNaN(a) THEN NaN
    ELSE IF IsInf(a) THEN (IF a.s = 1 THEN a ELSE F(0))
    ELSE F(Exp(a.v))

FCdf(a) ==
    IF IsNaN(a) THEN NaN
    ELSE IF IsInf(a) THEN (IF a.s = 1 THEN F(ONE) ELSE F(0))
    ELSE F(Cdf(a.v))

FPdf(a) ==
    IF IsNaN(a) THEN NaN
    ELSE IF IsInf(a) THEN F(0)
    ELSE F(Pdf(a.v))

Half == F(ONE \div 2)

-----------------------------------------------------------------------------
(* Results of a call: a returned value, or a raised exception.             *)

Returned(x) == [kind |-> "return", val |-> x, exc |-> "none"]
Raised(e) == [kind |-> "raise", val |-> NaN, exc |-> e]
NoCall == [kind |-> "none", val |-> NaN, exc |-> "none"]

\* raise ValueError("option_type must be 'call' or 'put'")
OptionTypeError == "ValueError: option_type must be 'call' or 'put'"

\* d2 = d1 - sigma * np.sqrt(T)
D2(d1, T, sigma) == FSub(d1, FMul(sigma, FSqrt(T)))

\* d1 of black_scholes and black_scholes_greeks.
D1(S, K, T, r, sigma) ==
    FDiv(FAdd(FLog(FDiv(S, K)),
              FMul(FAdd(r, FMul(Half, FMul(sigma, sigma))), T)),
         FMul(sigma, FSqrt(T)))

\* d1 of black_scholes_with_dividends.
D1q(S, K, T, r, sigma, q) ==
    FDiv(FAdd(FLog(FDiv(S, K)),
              FMul(FAdd(FSub(r, q), FMul(Half, FMul(sigma, sigma))), T)),
         FMul(sigma, FSqrt(T)))

\* np.exp(-r * T)
Discount(r, T) == FExp(FMul(FNeg(r), T))

black_scholes(S, K, T, r, sigma, option_type) ==
    LET d1 == D1(S, K, T, r, sigma)
        d2 == D2(d1, T, sigma)
    IN IF option_type = "call"
       THEN Returned(FSub(FMul(S, FCdf(d1)),
                          FMul(FMul(K, Discount(r, T)), FCdf(d2))))
       ELSE IF option_type = "put"
       THEN Returned(FSub(FMul(FMul(K, Discount(r, T)), FCdf(FNeg(d2))),
                          FMul(S, FCdf(FNeg(d1)))))
       ELSE Raised(OptionTypeError)

\* black_scholes_with_dividends with the spot discounted at r, not at q.
dividends_spot_discounted_at_r(S, K, T, r, sigma, q, option_type) ==
    LET d1 == D1q(S, K, T, r, sigma, q)
        d2 == D2(d1, T, sigma)
    IN IF option_type = "call"
       THEN Returned(FSub(FMul(FMul(S, Discount(r, T)), FCdf(d1)),
                          FMul(FMul(K, Discount(r, T)), FCdf(d2))))
       ELSE Returned(FSub(FMul(FMul(K, Discount(r, T)), FCdf(FNeg(d2))),
                          FMul(FMul(S, Discount(q, T)), FCdf(FNeg(d1)))))

\* black_scholes_with_dividends whose put leaves the spot term undiscounted,
\* as black_scholes does.
dividends_put_as_black_scholes(S, K, T, r, sigma, q, option_type) ==
    LET d1 == D1q(S, K, T, r, sigma, q)
        d2 == D2(d1, T, sigma)
    IN IF option_type = "call"
       THEN Returned(FSub(FMul(FMul(S, Discount(q, T)), FCdf(d1)),
                          FMul(FMul(K, Discount(r, T)), FCdf(d2))))
       ELSE Returned(FSub(FMul(FMul(K, Discount(r, T)), FCdf(FNeg(d2))),
                          FMul(S, FCdf(FNeg(d1)))))

black_scholes_with_dividends(S, K, T, r, sigma, q, option_type) ==
    LET d1 == D1q(S, K, T, r, sigma, q)
        d2 == D2(d1, T, sigma)
    IN IF option_type = "call"
       THEN Returned(FSub(FMul(FMul(S, Discount(q, T)), FCdf(d1)),
                          FMul(FMul(K, Discount(r, T)), FCdf(d2))))
       ELSE Returned(FSub(FMul(FMul(K, Discount(r, T)), FCdf(FNeg(d2))),
                          FMul(FMul(S, Discount(q, T)), FCdf(FNeg(d1)))))

\* delta with the put's "- 1" missing.
delta_put_without_minus_one(d1, option_type) == FCdf(d1)

\* delta = norm.cdf(d1) if option_type == 'call' else norm.cdf(d1) - 1
delta(d1, option_type) ==
    IF option_type = "call" THEN FCdf(d1) ELSE FSub(FCdf(d1), F(ONE))

black_scholes_greeks(S, K, T, r, sigma, option_type) ==
    LET d1 == D1(S, K, T, r, sigma)
        d2 == D2(d1, T, sigma)
        sqrtT == FSqrt(T)
        gamma == FDiv(FPdf(d1), FMul(FMul(S, sigma), sqrtT))
        vega == FMul(FMul(S, FPdf(d1)), sqrtT)
        decay == FDiv(FMul(FMul(FNeg(S), FPdf(d1)), sigma),
                      FMul(F(2 * ONE), sqrtT))
        carry == FMul(FMul(r, K), Discount(r, T))
        theta_call == FSub(decay, FMul(carry, FCdf(d2)))
        theta_put == FAdd(decay, FMul(carry, FCdf(FNeg(d2))))
        theta == IF option_type = "call" THEN theta_call ELSE theta_put
        rho_call == FMul(FMul(FMul(K, T), Discount(r, T)), FCdf(d2))
        rho_put == FMul(FMul(FMul(FNeg(K), T), Discount(r, T)),
                        FCdf(FNeg(d2)))
        rho == IF option_type = "call" THEN rho_call ELSE rho_put
    IN Returned([Delta |-> delta(d1, option_type),
                 Gamma |-> gamma,
                 Vega |-> FDiv(vega, F(100 * ONE)),
                 Theta |-> FDiv(theta, F(365 * ONE)),
                 Rho |-> FDiv(rho, F(100 * ONE))])

-----------------------------------------------------------------------------
(* monte_carlo_option_price and numpy's global generator.                  *)
(* The legacy global RandomState is a Mersenne Twister; here it is a small *)
(* congruential generator with RngMod states whose every state yields one  *)
(* variate.  np.random.seed and np.random.standard_normal each run under   *)
(* the generator's lock, so each is one atomic step on the shared state.   *)

RngMod == 8
Seed == 42
RngStates == 0 .. (RngMod - 1)

\* np.random.seed(seed)
RngSeed(seed) == seed % RngMod

RngNext(s) == (5 * s + 3) % RngMod

\* The variate a generator state yields, spread over (-1.5, 1.5).
Variate(s) == F(Quot((2 * s + 1 - RngMod) * 3 * ONE, 2 * RngMod))

\* np.random.standard_normal(n) from state s: the n variates and the state left.
RECURSIVE StandardNormal(_, _)
StandardNormal(s, n) ==
    IF n = 0 THEN [z |-> <<>>, rng |-> s]
    ELSE LET d == StandardNormal(RngNext(s), n - 1)
         IN [z |-> <<Variate(RngNext(s))>> \o d.z, rng |-> d.rng]

\* np.maximum(a, b): nan if either is nan.
FMax(a, b) ==
    IF IsNaN(a) \/ IsNaN(b) THEN NaN
    ELSE IF IsInf(a) THEN (IF a.s = 1 THEN a ELSE b)
    ELSE IF IsInf(b) THEN (IF b.s = 1 THEN b ELSE a)
    ELSE IF a.v >= b.v THEN a ELSE b

RECURSIVE FSum(_)
FSum(xs) == IF xs = <<>> THEN F(0) ELSE FAdd(Head(xs), FSum(Tail(xs)))

\* ST = S * np.exp((r - 0.5 * sigma**2) * T + sigma * np.sqrt(T) * Z)
TerminalPrice(a, z) ==
    FMul(F(a.S),
         FExp(FAdd(FMul(FSub(F(a.r), FMul(Half, FMul(F(a.sigma), F(a.sigma)))),
                        F(a.T)),
                   FMul(FMul(F(a.sigma), FSqrt(F(a.T))), z))))

\* np.maximum(ST - K, 0) for 'call', np.maximum(K - ST, 0) otherwise.
Payoff(a, z) ==
    IF a.option_type = "call"
    THEN FMax(FSub(TerminalPrice(a, z), F(a.K)), F(0))
    ELSE FMax(FSub(F(a.K), TerminalPrice(a, z)), F(0))

\* np.exp(-r * T) * np.mean(payoff)
DiscountedMean(a, zs) ==
    FMul(Discount(F(a.r), F(a.T)),
         FDiv(FSum([i \in 1 .. Len(zs) |-> Payoff(a, zs[i])]),
              F(Len(zs) * ONE)))

\* monte_carlo_option_price without "np.random.seed(42)": the draws continue
\* from whatever state the global generator is in.
monte_carlo_without_seed(a, s) ==
    LET d == StandardNormal(s, a.simulations)
    IN [out |-> Returned(DiscountedMean(a, d.z)), rng |-> d.rng]

\* One whole call run without interruption from generator state s: the
\* returned value and the generator state it leaves.
monte_carlo_option_price(a, s) ==
    LET d == StandardNormal(RngSeed(Seed), a.simulations)
    IN [out |-> Returned(DiscountedMean(a, d.z)), rng |-> d.rng]

-----------------------------------------------------------------------------
(* implied_volatility: brentq(objective, 1e-5, 3.0) with scipy's defaults. *)
(* Volatilities are counted in millionths like every other number, so the  *)
(* absolute tolerance xtol (2e-12 in scipy, below a millionth) is two      *)
(* units, the finest bracket the representation can tell apart, and the    *)
(* relative tolerance 4 * eps contributes nothing.                         *)

SigmaLo == 10
SigmaHi == 3000000
XTol == 2
MaxIter == 100

\* raise ValueError("f(a) and f(b) must have different signs")
SignError == "ValueError: f(a) and f(b) must have different signs"
\* raise RuntimeError("Failed to converge after %d iterations")
ConvergenceError == "RuntimeError: failed to converge"

\* objective with the target price added where it is subtracted.
objective_plus_target(in, sigma) ==
    LET p == black_scholes(F(in.S), F(in.K), F(in.T), F(in.r), F(sigma),
                           in.option_type)
    IN IF p.kind = "raise" THEN p
       ELSE Returned(FAdd(p.val, F(in.target_price)))

\* objective(sigma) = black_scholes(S, K, T, r, sigma, option_type) - target_price
objective(in, sigma) ==
    LET p == black_scholes(F(in.S), F(in.K), F(in.T), F(in.r), F(sigma),
                           in.option_type)
    IN IF p.kind = "raise" THEN p
       ELSE Returned(FSub(p.val, F(in.target_price)))

\* delta = (xtol + rtol * fabs(xcur)) / 2
BrentqDelta == XTol \div 2

\* a * m / b with the sign of the quotient, truncated toward zero.
MulDiv(a, m, b) == Sgn(a) * Sgn(m) * Sgn(b) * MulDivAbs(Abs(a), Abs(m), Abs(b))

\* num / den where a quotient wider than the bracket, or a zero divisor,
\* is an oversized step (the step test rejects it either way).
StepQuotient(num, den) ==
    IF den = 0 \/ Abs(num) \div Abs(den) >= 4
    THEN Sgn(num) * Sgn(den) * 4 * ONE
    ELSE Div(num, den)

\* The locals of brentq once f(xa) and f(xb) are known.
BrentqLocals(xa, xb, fa, fb) ==
    [xpre |-> xa, xcur |-> xb, xblk |-> 0, fpre |-> fa, fcur |-> fb,
     fblk |-> 0, spre |-> 0, scur |-> 0, iter |-> 0]

\* The checks before the loop without the test of the signs.
BrentqStartWithoutSignTest(fa, fb) ==
    IF fa = 0 THEN "return_xa"
    ELSE IF fb = 0 THEN "return_xb"
    ELSE "loop"

\* The checks of brentq before its loop: "return", "raise" or "loop".
BrentqStart(fa, fb) ==
    IF fa = 0 THEN "return_xa"
    ELSE IF fb = 0 THEN "return_xb"
    ELSE IF Sgn(fa) = Sgn(fb) THEN "sign_error"
    ELSE "loop"

\* The head of one loop iteration: re-bracket, then keep the better end in xcur.
BrentqBracket(b) ==
    LET b1 == IF b.fpre # 0 /\ b.fcur # 0 /\ Sgn(b.fpre) # Sgn(b.fcur)
              THEN [b EXCEPT !.xblk = b.xpre, !.fblk = b.fpre,
                             !.spre = b.xcur - b.xpre,
                             !.scur = b.xcur - b.xpre]
              ELSE b
    IN IF Abs(b1.fblk) < Abs(b1.fcur)
       THEN [b1 EXCEPT !.xpre = b1.xcur, !.xcur = b1.xblk, !.xblk = b1.xcur,
                       !.fpre = b1.fcur, !.fcur = b1.fblk, !.fblk = b1.fcur]
       ELSE b1

\* sbis = (xblk - xcur) / 2
BrentqSbis(b) == Quot(b.xblk - b.xcur, 2)

\* if (fcur == 0 || fabs(sbis) < delta) return xcur
BrentqConverged(b) == b.fcur = 0 \/ Abs(BrentqSbis(b)) < BrentqDelta

\* stry: secant step when xpre == xblk, inverse quadratic extrapolation otherwise.
BrentqTry(b) ==
    IF b.xpre = b.xblk
    THEN MulDiv(-b.fcur, b.xcur - b.xpre, b.fcur - b.fpre)
    ELSE LET dpre == Div(b.fpre - b.fcur, b.xpre - b.xcur)
             dblk == Div(b.fblk - b.fcur, b.xblk - b.xcur)
         IN StepQuotient(Mul(-b.fcur, Mul(b.fblk, dblk) - Mul(b.fpre, dpre)),
                         Mul(Mul(dblk, dpre), b.fblk - b.fpre))

\* The step chosen (spre, scur) and the next xcur, for a bracketed b.
BrentqAdvance(b) ==
    LET sbis == BrentqSbis(b)
        stry == BrentqTry(b)
        short == /\ Abs(b.spre) > BrentqDelta
                 /\ Abs(b.fcur) < Abs(b.fpre)
                 /\ 2 * Abs(stry) < Min(Abs(b.spre), 3 * Abs(sbis) - BrentqDelta)
        spre == IF short THEN b.scur ELSE sbis
        scur == IF short THEN stry ELSE sbis
        step == IF Abs(scur) > BrentqDelta THEN scur
                ELSE IF sbis > 0 THEN BrentqDelta ELSE -BrentqDelta
    IN [b EXCEPT !.spre = spre, !.scur = scur, !.xpre = b.xcur,
                 !.fpre = b.fcur, !.xcur = b.xcur + step]

-----------------------------------------------------------------------------
(* State.                                                                  *)

VARIABLES
    args,   \* the arguments S, K, T, r, sigma, q of the pricing calls
    last,   \* the most recent pricing call: [op, option_type, out]
    rng,    \* the state of numpy's global generator
    trace,  \* the calls one thread has made on the generator, in order
    pc,     \* each thread's position inside monte_carlo_option_price
    targ,   \* each thread's arguments
    zs,     \* each thread's local Z
    ret,    \* each thread's returned value
    iv      \* an implied_volatility call: [pc, in, b, out]

vars == <<args, last, rng, trace, pc, targ, zs, ret, iv>>

pricingVars == <<args, last>>
threadVars == <<pc, targ, zs, ret>>

MaxSims == 2
MaxTrace == 3
NThreads == 2

Threads == 1 .. NThreads

OptionTypes == {"call", "put", "straddle"}

\* Argument values, in millionths.
SpotValues == {90 * ONE, 100 * ONE}
StrikeValues == {100 * ONE}
ExpiryValues == {-ONE, 0, ONE \div 2, ONE}
RateValues == {0, 50000}
SigmaValues == {-200000, 0, 200000, 400000}
YieldValues == {0, 30000}

ArgSets ==
    [S : SpotValues, K : StrikeValues, T : ExpiryValues, r : RateValues,
     sigma : SigmaValues, q : YieldValues]

\* Arguments of monte_carlo_option_price.
MCInputs ==
    [S : {100 * ONE}, K : {100 * ONE}, T : {ONE}, r : {50000},
     sigma : {200000}, simulations : 1 .. MaxSims,
     option_type : {"call", "put"}]

NoInput ==
    [S |-> 0, K |-> 0, T |-> 0, r |-> 0, sigma |-> 0, simulations |-> 0,
     option_type |-> "none"]

NoArgs == [S |-> 0, K |-> 0, T |-> 0, r |-> 0, sigma |-> 0, q |-> 0]

NoLast == [op |-> "none", option_type |-> "none", out |-> NoCall]

\* Arguments of implied_volatility; sigma0 is the volatility target_price was
\* priced at, or 0 when target_price is given directly.
IVRecord(tp, S, K, T, r, ot, s0) ==
    [target_price |-> tp, S |-> S, K |-> K, T |-> T, r |-> r,
     option_type |-> ot, sigma0 |-> s0]

\* target_price = black_scholes(S, K, T, r, sigma0, option_type)
RoundTrip(S, K, T, r, ot, s0) ==
    IVRecord(black_scholes(F(S), F(K), F(T), F(r), F(s0), ot).val.v,
             S, K, T, r, ot, s0)

\* Round trips at volatilities where the price responds to sigma, at the
\* ends of the bracket, and deep in the money where norm.cdf(d1) and
\* norm.cdf(d2) are both exactly 1.0; then target prices given directly:
\* below every price, above every price, and with an unknown option type.
IVInputs ==
    {RoundTrip(10 * ONE, K, T, 50000, ot, s0) :
        K \in {9 * ONE, 10 * ONE, 11 * ONE}, T \in {ONE \div 2, ONE},
        ot \in {"call", "put"}, s0 \in {200000, ONE}}
    \cup {RoundTrip(10 * ONE, 10 * ONE, ONE, 50000, ot, s0) :
        ot \in {"call", "put"}, s0 \in {SigmaLo, 50000, SigmaHi}}
    \cup {RoundTrip(10 * ONE, 5 * ONE, ONE, 50000, "call", s0) :
        s0 \in {50000, ONE}}
    \cup {RoundTrip(10 * ONE, 20 * ONE, ONE, 50000, "put", s0) :
        s0 \in {50000, ONE}}
    \cup {IVRecord(tp, 100 * ONE, 100 * ONE, ONE, 50000, ot, 0) :
        tp \in {-ONE, 1000 * ONE}, ot \in {"call", "put"}}
    \cup {IVRecord(ONE, 10 * ONE, 10 * ONE, ONE, 50000, "straddle", 0)}

NoIV ==
    [pc |-> "idle", in |-> IVRecord(0, 0, 0, 0, 0, "none", 0),
     b |-> BrentqLocals(0, 0, 0, 0), out |-> NoCall]

IdleThreads ==
    /\ pc = [t \in Threads |-> "idle"]
    /\ targ = [t \in Threads |-> NoInput]
    /\ zs = [t \in Threads |-> <<>>]
    /\ ret = [t \in Threads |-> NoCall]

-----------------------------------------------------------------------------
(* The pricing functions, called on fixed arguments in any order.          *)

Init ==
    /\ args \in ArgSets
    /\ last = NoLast
    /\ rng = 0
    /\ trace = <<>>
    /\ IdleThreads
    /\ iv = NoIV

BlackScholes(ot) ==
    /\ last' = [op |-> "black_scholes", option_type |-> ot,
                out |-> black_scholes(F(args.S), F(args.K), F(args.T),
                                      F(args.r), F(args.sigma), ot)]
    /\ UNCHANGED <<args, rng, trace, threadVars, iv>>

BlackScholesWithDividends(ot) ==
    /\ last' = [op |-> "black_scholes_with_dividends", option_type |-> ot,
                out |-> black_scholes_with_dividends(
                            F(args.S), F(args.K), F(args.T), F(args.r),
                            F(args.sigma), F(args.q), ot)]
    /\ UNCHANGED <<args, rng, trace, threadVars, iv>>

BlackScholesGreeks(ot) ==
    /\ last' = [op |-> "black_scholes_greeks", option_type |-> ot,
                out |-> black_scholes_greeks(F(args.S), F(args.K), F(args.T),
                                             F(args.r), F(args.sigma), ot)]
    /\ UNCHANGED <<args, rng, trace, threadVars, iv>>

\* monte_carlo_option_price on the same market arguments, run to completion.
MonteCarlo(ot, n) ==
    LET a == [S |-> args.S, K |-> args.K, T |-> args.T, r |-> args.r,
              sigma |-> args.sigma, simulations |-> n, option_type |-> ot]
        res == monte_carlo_option_price(a, rng)
    IN /\ last' = [op |-> "monte_carlo_option_price", option_type |-> ot,
                   out |-> res.out]
       /\ rng' = res.rng
       /\ UNCHANGED <<args, trace, threadVars, iv>>

Next ==
    \E ot \in OptionTypes :
        \/ BlackScholes(ot)
        \/ BlackScholesWithDividends(ot)
        \/ BlackScholesGreeks(ot)
        \/ \E n \in 1 .. MaxSims : MonteCarlo(ot, n)

Spec == Init /\ [][Next]_vars

-----------------------------------------------------------------------------
(* One thread calling monte_carlo_option_price between other uses of the   *)
(* global generator.                                                       *)

MCEvent(ev, a, out) == [ev |-> ev, a |-> a, out |-> out]

InitMC ==
    /\ rng \in RngStates
    /\ trace = <<>>
    /\ args = NoArgs
    /\ last = NoLast
    /\ IdleThreads
    /\ iv = NoIV

MonteCarloCall(a) ==
    LET res == monte_carlo_option_price(a, rng)
    IN /\ Len(trace) < MaxTrace
       /\ trace' = Append(trace, MCEvent("mc", a, res.out))
       /\ rng' = res.rng
       /\ UNCHANGED <<pricingVars, threadVars, iv>>

\* Other code draws from the global generator: np.random.standard_normal().
OtherDraw ==
    /\ Len(trace) < MaxTrace
    /\ trace' = Append(trace, MCEvent("draw", NoInput, Returned(Variate(RngNext(rng)))))
    /\ rng' = RngNext(rng)
    /\ UNCHANGED <<pricingVars, threadVars, iv>>

\* Other code reseeds the global generator: np.random.seed(sd).
OtherSeed(sd) ==
    /\ Len(trace) < MaxTrace
    /\ trace' = Append(trace, MCEvent("seed", NoInput, NoCall))
    /\ rng' = RngSeed(sd)
    /\ UNCHANGED <<pricingVars, threadVars, iv>>

NextMC ==
    \/ \E a \in MCInputs : MonteCarloCall(a)
    \/ OtherDraw
    \/ \E sd \in {7} : OtherSeed(sd)

SpecMC == InitMC /\ [][NextMC]_vars

-----------------------------------------------------------------------------
(* Threads each running monte_carlo_option_price on the one global         *)
(* generator, with no synchronization between its statements.              *)

InitThreads ==
    /\ rng \in RngStates
    /\ pc = [t \in Threads |-> "call"]
    /\ targ \in [Threads -> MCInputs]
    /\ zs = [t \in Threads |-> <<>>]
    /\ ret = [t \in Threads |-> NoCall]
    /\ trace = <<>>
    /\ args = NoArgs
    /\ last = NoLast
    /\ iv = NoIV

\* np.random.seed(42)
MCSeed(t) ==
    /\ pc[t] = "call"
    /\ rng' = RngSeed(Seed)
    /\ pc' = [pc EXCEPT ![t] = "seeded"]
    /\ UNCHANGED <<pricingVars, trace, targ, zs, ret, iv>>

\* Z = np.random.standard_normal(simulations)
MCDraw(t) ==
    LET d == StandardNormal(rng, targ[t].simulations)
    IN /\ pc[t] = "seeded"
       /\ zs' = [zs EXCEPT ![t] = d.z]
       /\ rng' = d.rng
       /\ pc' = [pc EXCEPT ![t] = "drawn"]
       /\ UNCHANGED <<pricingVars, trace, targ, ret, iv>>

\* ST, payoff and return np.exp(-r * T) * np.mean(payoff)
MCReturn(t) ==
    /\ pc[t] = "drawn"
    /\ ret' = [ret EXCEPT ![t] = Returned(DiscountedMean(targ[t], zs[t]))]
    /\ pc' = [pc EXCEPT ![t] = "done"]
    /\ UNCHANGED <<pricingVars, rng, trace, targ, zs, iv>>

NextThreads == \E t \in Threads : MCSeed(t) \/ MCDraw(t) \/ MCReturn(t)

SpecThreads == InitThreads /\ [][NextThreads]_vars

-----------------------------------------------------------------------------
(* implied_volatility, one brentq iteration per step.                      *)

InitIV ==
    /\ iv \in {[pc |-> "call", in |-> in, b |-> BrentqLocals(0, 0, 0, 0),
                out |-> NoCall] : in \in IVInputs}
    /\ rng = 0
    /\ trace = <<>>
    /\ args = NoArgs
    /\ last = NoLast
    /\ IdleThreads

IVDone(out) == [iv EXCEPT !.pc = "done", !.out = out]

\* brentq evaluates f(xa) and f(xb), then checks them.
IVCall ==
    LET fa == objective(iv.in, SigmaLo)
        fb == objective(iv.in, SigmaHi)
        start == BrentqStart(fa.val.v, fb.val.v)
    IN /\ iv.pc = "call"
       /\ iv' = IF fa.kind = "raise" THEN IVDone(fa)
                ELSE IF fb.kind = "raise" THEN IVDone(fb)
                ELSE IF start = "return_xa" THEN IVDone(Returned(F(SigmaLo)))
                ELSE IF start = "return_xb" THEN IVDone(Returned(F(SigmaHi)))
                ELSE IF start = "sign_error" THEN IVDone(Raised(SignError))
                ELSE [iv EXCEPT !.pc = "loop",
                                !.b = BrentqLocals(SigmaLo, SigmaHi,
                                                   fa.val.v, fb.val.v)]
       /\ UNCHANGED <<pricingVars, rng, trace, threadVars>>

\* A loop that neither counts its passes nor tests for convergence.
BrentqIterateWithoutExit(v) ==
    LET b == BrentqBracket(v.b)
        n == BrentqAdvance(b)
        f == objective(v.in, n.xcur)
    IN [v EXCEPT !.b = [n EXCEPT !.fcur = f.val.v]]

\* One pass of "for (i = 0; i < iter; i++)", or the exit after the last one.
BrentqIterate(v) ==
    LET b == BrentqBracket([v.b EXCEPT !.iter = v.b.iter + 1])
        n == BrentqAdvance(b)
        f == objective(v.in, n.xcur)
    IN IF v.b.iter >= MaxIter
       THEN [v EXCEPT !.pc = "done", !.out = Raised(ConvergenceError)]
       ELSE IF BrentqConverged(b)
       THEN [v EXCEPT !.pc = "done", !.b = b, !.out = Returned(F(b.xcur))]
       ELSE IF f.kind = "raise"
       THEN [v EXCEPT !.pc = "done", !.b = n, !.out = f]
       ELSE [v EXCEPT !.b = [n EXCEPT !.fcur = f.val.v]]

IVIterate ==
    /\ iv.pc = "loop"
    /\ iv' = BrentqIterate(iv)
    /\ UNCHANGED <<pricingVars, rng, trace, threadVars>>

NextIV == IVCall \/ IVIterate

SpecIV == InitIV /\ [][NextIV]_vars

-----------------------------------------------------------------------------
(* Properties of the pricing functions, checked under Spec.                *)

KnownTypes == {"call", "put"}
PriceOps == {"black_scholes", "black_scholes_with_dividends"}
OtherType(ot) == IF ot = "call" THEN "put" ELSE "call"

\* S > 0, K > 0, T > 0, sigma > 0.
ValidArgs == args.S > 0 /\ args.K > 0 /\ args.T > 0 /\ args.sigma > 0

\* What the function that ran last returns for another option type.
PriceAs(op, ot) ==
    IF op = "black_scholes"
    THEN black_scholes(F(args.S), F(args.K), F(args.T), F(args.r),
                       F(args.sigma), ot)
    ELSE black_scholes_with_dividends(F(args.S), F(args.K), F(args.T),
                                      F(args.r), F(args.sigma), F(args.q), ot)

\* C1: every pricing operation called with an option type other than
\* 'call' or 'put' fails with an error and never prices the option as one of
\* the two known types.
C1_UnknownTypeRejected ==
    (last.op # "none" /\ last.option_type \notin KnownTypes)
        => last.out.kind = "raise"

\* C2: black_scholes and black_scholes_with_dividends called with
\* sigma <= 0 or T <= 0 fail with an error and return no number.
C2_NonPositiveRejected ==
    (/\ last.op \in PriceOps
     /\ last.option_type \in KnownTypes
     /\ (args.sigma <= 0 \/ args.T <= 0))
        => last.out.kind = "raise"

\* C7: for valid arguments the call price minus the put price of one pricing
\* function equals S*exp(-q*T) - K*exp(-r*T) (q = 0 for black_scholes), up
\* to the rounding of the two products on each side.
C7_PutCallParity ==
    (last.op \in PriceOps /\ last.option_type \in KnownTypes /\ ValidArgs)
        => LET other == PriceAs(last.op, OtherType(last.option_type))
               C == IF last.option_type = "call" THEN last.out ELSE other
               P == IF last.option_type = "put" THEN last.out ELSE other
               q == IF last.op = "black_scholes" THEN F(0) ELSE F(args.q)
               forward == FSub(FMul(F(args.S), Discount(q, F(args.T))),
                               FMul(F(args.K), Discount(F(args.r), F(args.T))))
           IN /\ C.kind = "return" /\ IsFin(C.val)
              /\ P.kind = "return" /\ IsFin(P.val)
              /\ Abs((C.val.v - P.val.v) - forward.v) <= 2

\* C7 witness: a put priced with a positive dividend yield on valid
\* arguments, with a positive price.
C7_Witness ==
    /\ last.op = "black_scholes_with_dividends"
    /\ last.option_type = "put"
    /\ ValidArgs /\ args.q > 0 /\ args.r > 0
    /\ last.out.kind = "return" /\ IsFin(last.out.val) /\ last.out.val.v > 0

\* C8: with q = 0, black_scholes_with_dividends gives the outcome of
\* black_scholes on the same arguments, for calls and for puts.
C8_ZeroYieldIsBlackScholes ==
    (/\ last.op = "black_scholes_with_dividends"
     /\ last.option_type \in KnownTypes
     /\ args.q = 0)
        => last.out = black_scholes(F(args.S), F(args.K), F(args.T),
                                    F(args.r), F(args.sigma),
                                    last.option_type)

\* C8 witness: black_scholes_with_dividends has priced an option at q = 0 and
\* a positive rate on valid arguments.
C8_Witness ==
    /\ last.op = "black_scholes_with_dividends"
    /\ last.option_type \in KnownTypes
    /\ args.q = 0 /\ args.r > 0 /\ ValidArgs
    /\ last.out.kind = "return" /\ IsFin(last.out.val) /\ last.out.val.v > 0

\* C10: for valid arguments Gamma and Vega are the same for a call and a
\* put, while Delta depends on the type: Delta(put) = Delta(call) - 1.
C10_GreeksByType ==
    (/\ last.op = "black_scholes_greeks"
     /\ last.option_type \in KnownTypes
     /\ ValidArgs)
        => LET other == black_scholes_greeks(
                            F(args.S), F(args.K), F(args.T), F(args.r),
                            F(args.sigma), OtherType(last.option_type)).val
               c == IF last.option_type = "call" THEN last.out.val ELSE other
               p == IF last.option_type = "put" THEN last.out.val ELSE other
           IN /\ IsFin(c.Gamma) /\ c.Gamma = p.Gamma
              /\ IsFin(c.Vega) /\ c.Vega = p.Vega
              /\ IsFin(c.Delta) /\ p.Delta = FSub(c.Delta, F(ONE))
              /\ p.Delta # c.Delta

\* C10 witness: the Greeks of a put on valid arguments, with a negative
\* Delta and a positive Gamma.
C10_Witness ==
    /\ last.op = "black_scholes_greeks"
    /\ last.option_type = "put"
    /\ ValidArgs
    /\ last.out.val.Delta.v < 0
    /\ last.out.val.Gamma.v > 0

-----------------------------------------------------------------------------
(* Properties of monte_carlo_option_price.                                 *)

McCalls == {i \in 1 .. Len(trace) : trace[i].ev = "mc"}

\* C4: in one thread, two calls of monte_carlo_option_price with the same
\* arguments return the same value, whatever draws and reseedings of the
\* global generator happen before and between them.
C4_SameArgsSameValue ==
    \A i, j \in McCalls :
        trace[i].a = trace[j].a => trace[i].out = trace[j].out

\* C4 witness: two calls with the same arguments and more than one path,
\* with a draw from the global generator between them, both returning a
\* number.
C4_Witness ==
    /\ Len(trace) = 3
    /\ trace[1].ev = "mc" /\ trace[2].ev = "draw" /\ trace[3].ev = "mc"
    /\ trace[1].a = trace[3].a
    /\ trace[1].a.simulations > 1
    /\ IsFin(trace[3].out.val) /\ trace[3].out.val.v > 0

\* C5: monte_carlo_option_price is safe to call from several threads without
\* synchronization: each thread's call returns what the call returns when it
\* runs alone.
C5_ThreadsGetTheSequentialValue ==
    \A t \in Threads :
        pc[t] = "done" => ret[t] = monte_carlo_option_price(targ[t], 0).out

-----------------------------------------------------------------------------
(* Properties of implied_volatility, checked under SpecIV.                 *)

\* objective(1e-5) and objective(3.0) are both positive or both negative.
SameSignAtBothEnds(in) ==
    LET fa == objective(in, SigmaLo)
        fb == objective(in, SigmaHi)
    IN /\ fa.kind = "return" /\ IsFin(fa.val)
       /\ fb.kind = "return" /\ IsFin(fb.val)
       /\ fa.val.v # 0 /\ fb.val.v # 0
       /\ Sgn(fa.val.v) = Sgn(fb.val.v)

\* C3: when the objective has the same sign at both ends of [1e-5, 3.0],
\* implied_volatility raises the solver's error about the signs: it never
\* enters the loop and returns no number.
C3_NoSignChangeRaises ==
    SameSignAtBothEnds(iv.in)
        => /\ iv.pc # "loop"
           /\ iv.pc = "done" => iv.out = Raised(SignError)

\* C3 witness: a call whose target price lies above every price on the
\* bracket has ended with the error about the signs.
C3_Witness ==
    /\ iv.pc = "done"
    /\ iv.in.target_price > 0
    /\ SameSignAtBothEnds(iv.in)
    /\ iv.out = Raised(SignError)

\* The accuracy a returned root has: xtol on either side of it.
RoundTripTol == 2 * XTol

RoundTripped ==
    /\ iv.out.kind = "return"
    /\ IsFin(iv.out.val)
    /\ Abs(iv.out.val.v - iv.in.sigma0) <= RoundTripTol

\* The price moves with the volatility at sigma0: the price one tolerance
\* below sigma0 is strictly below the target and the price one tolerance
\* above it strictly above (a side that falls outside the bracket is not
\* tested).
PriceSensitiveAtSigma0(in) ==
    /\ \/ in.sigma0 - RoundTripTol < SigmaLo
       \/ objective(in, in.sigma0 - RoundTripTol).val.v < 0
    /\ \/ in.sigma0 + RoundTripTol > SigmaHi
       \/ objective(in, in.sigma0 + RoundTripTol).val.v > 0

\* C6 as stated: for every sigma0 in [1e-5, 3.0] and price =
\* black_scholes(S, K, T, r, sigma0, type), implied_volatility(price, ...)
\* returns sigma0 within the solver tolerance.
C6_RoundTrip ==
    (iv.pc = "done" /\ iv.in.sigma0 > 0 /\ iv.in.option_type \in KnownTypes)
        => RoundTripped

\* C6 amended: the round trip returns sigma0 within the solver tolerance
\* whenever the price moves with the volatility at sigma0; where the price
\* is flat in sigma the call returns another volatility with the same price.
C6_RoundTripWherePriceMoves ==
    (/\ iv.pc = "done"
     /\ iv.in.sigma0 > 0
     /\ iv.in.option_type \in KnownTypes
     /\ PriceSensitiveAtSigma0(iv.in))
        => RoundTripped

\* C6 witness: a round trip at a volatility inside the bracket where the
\* price moves has ended after running the loop.
C6_Witness ==
    /\ iv.pc = "done"
    /\ iv.in.sigma0 - RoundTripTol >= SigmaLo
    /\ iv.in.sigma0 + RoundTripTol <= SigmaHi
    /\ PriceSensitiveAtSigma0(iv.in)
    /\ iv.b.iter > 1
    /\ RoundTripped

\* C9: the loop of the root finder is bounded by its iteration count, so
\* every call ends with a value or an error: each pass of the loop either
\* ends the call or raises the count of passes by one, and the count never
\* exceeds the maximum.
C9_EveryPassEndsOrCounts ==
    [][iv.pc = "loop"
          => \/ iv'.pc = "done"
             \/ /\ iv'.pc = "loop"
                /\ iv'.b.iter = iv.b.iter + 1
                /\ iv'.b.iter <= MaxIter]_vars

\* C9 witness: a call has ended after several passes of the loop, within
\* the iteration bound.
C9_Witness ==
    /\ iv.pc = "done"
    /\ iv.b.iter > 2
    /\ iv.b.iter <= MaxIter
====
